---- MODULE Spec2Model ----
(***************************************************************************)
(* Model of the user-management dashboard: the useUsers hook (record store *)
(* allUsers, optimistic mutations with rollback, filters, pagination), the *)
(* ApiService it calls, and the pure helpers filterUsers, paginateArray    *)
(* and calculateTotalPages of lib/utils.ts.                                *)
(*                                                                         *)
(* Encoding of JavaScript values                                           *)
(*   text       a sequence of character codes (65 = "A", 97 = "a", 32 =    *)
(*              " "); the value undefined of a text field is UndefText     *)
(*   number     an integer; undefined is UndefNum                          *)
(*   boolean    "true" / "false"; undefined is "undefined"                 *)
(*   timestamp  the millisecond clock value the ISO string is made from;   *)
(*              toISOString / new Date(iso) is exact and order preserving  *)
(*              on these values, undefined is UndefNum                     *)
(***************************************************************************)
EXTENDS Integers, Sequences, FiniteSets, TLC

(***************************************************************************)
(* Bounds of the model                                                     *)
(***************************************************************************)
NumServerUsers == 2      \* records the backing source lists
MaxUsers == 3            \* length of allUsers beyond which no record is added
MaxCalls == 2            \* handler invocations after the mount fetch
MaxPending == 2          \* calls in flight at the same time
MaxLimit == 2            \* largest page size offered to setLimit
MaxLen == 4              \* longest array given to paginateArray on its own
MaxPageOff == 2          \* pages tried below 1 and above the last page
MaxRecords == 3          \* longest collection given to filterUsers on its own

UndefNum == -1
UndefText == <<-1>>
Undef == "undefined"

Min(a, b) == IF a < b THEN a ELSE b
Max(a, b) == IF a > b THEN a ELSE b

\* all elements of a sequence, as a set
Range(s) == {s[i] : i \in 1..Len(s)}

\* Array.prototype.filter with a predicate that cannot throw
RECURSIVE SelectIdx(_, _, _)
SelectIdx(s, keep, i) ==
  IF i > Len(s) THEN <<>>
  ELSE (IF i \in keep THEN <<s[i]>> ELSE <<>>) \o SelectIdx(s, keep, i + 1)

(***************************************************************************)
(* Strings                                                                 *)
(***************************************************************************)
\* String.prototype.toLowerCase on the letters A..Z
LowerChar(c) == IF c >= 65 /\ c <= 90 THEN c + 32 ELSE c
toLowerCase(t) == [i \in 1..Len(t) |-> LowerChar(t[i])]

\* String.prototype.includes
includes(t, q) ==
  \E i \in 0..(Len(t) - Len(q)) : \A j \in 1..Len(q) : t[i + j] = q[j]

\* String.prototype.trim (the only white space in the alphabet is 32)
RECURSIVE TrimLeft(_)
TrimLeft(t) == IF t # <<>> /\ Head(t) = 32 THEN TrimLeft(Tail(t)) ELSE t
RECURSIVE TrimRight(_)
TrimRight(t) ==
  IF t # <<>> /\ t[Len(t)] = 32 THEN TrimRight(SubSeq(t, 1, Len(t) - 1)) ELSE t
trim(t) == TrimRight(TrimLeft(t))

\* a > b on two strings: lexicographic by code unit
RECURSIVE TextGt(_, _)
TextGt(a, b) ==
  IF a = <<>> THEN FALSE
  ELSE IF b = <<>> THEN TRUE
  ELSE IF Head(a) # Head(b) THEN Head(a) > Head(b)
  ELSE TextGt(Tail(a), Tail(b))

(***************************************************************************)
(* Pagination utilities (lib/utils.ts)                                     *)
(***************************************************************************)
\* Array.prototype.slice(start, end) for integer arguments
RelIndex(k, len) == IF k < 0 THEN Max(len + k, 0) ELSE Min(k, len)
slice(array, start, end) ==
  SubSeq(array, RelIndex(start, Len(array)) + 1, RelIndex(end, Len(array)))

\* paginateArray with the page taken as a zero-based index
paginateArrayZeroBased(array, page, limit) ==
  slice(array, page * limit, page * limit + limit)

paginateArray(array, page, limit) ==
  LET startIndex == (page - 1) * limit
      endIndex == startIndex + limit
  IN slice(array, startIndex, endIndex)

\* Math.ceil(total / limit) for total >= 0 and limit >= 1
calculateTotalPages(total, limit) == (total + limit - 1) \div limit

(***************************************************************************)
(* Records (types/user.ts) and the closed enumerations                     *)
(***************************************************************************)
Admin == <<97, 100, 109, 105, 110>>                \* 'admin'
UserRole == <<117, 115, 101, 114>>                 \* 'user'
Manager == <<109, 97, 110, 97, 103, 101, 114>>     \* 'manager'
Active == <<97, 99, 116, 105, 118, 101>>           \* 'active'
Inactive == <<105, 110, 97, 99, 116, 105, 118, 101>>  \* 'inactive'
All == <<97, 108, 108>>                            \* 'all'

\* generateAvatarUrl: a fixed URL around encodeURIComponent(name)
RECURSIVE encodeURIComponent(_)
encodeURIComponent(t) ==
  IF t = <<>> THEN <<>>
  ELSE (IF Head(t) = 32 THEN <<37, 50, 48>> ELSE <<Head(t)>>)
       \o encodeURIComponent(Tail(t))
generateAvatarUrl(name) == <<63>> \o encodeURIComponent(name) \o <<38>>

(***************************************************************************)
(* filterUsers (lib/utils.ts)                                              *)
(*                                                                         *)
(* Criteria are a function from the keys that are present to their values: *)
(*   search, company, jobTitle, city   text                                *)
(*   role, status                      text ('all' = All)                  *)
(*   hasSalary                         "all", "yes", "no" or ""            *)
(*   salaryMin, salaryMax              [kind: "empty"] for '',             *)
(*                                     [kind: "num", v] for a number,      *)
(*                                     [kind: "nan"] for a value Number()  *)
(*                                     turns into NaN                      *)
(*   createdAfter, createdBefore       [kind: "blank"] for '' or spaces,   *)
(*                                     [kind: "date", t], [kind: "invalid"]*)
(*   sortBy                            "" or a property path               *)
(*   sortOrder                         "asc" or "desc"                     *)
(* A key that is not in the domain is undefined.                           *)
(***************************************************************************)
Has(f, k) == k \in DOMAIN f

\* the kind of value stored at a property path of a record
FieldKind(path) ==
  CASE path \in {"name", "username", "email", "phone", "website", "avatar",
                  "status", "role", "jobTitle", "company.name",
                  "address.city"} -> "text"
    [] path \in {"id", "salary", "createdAt", "updatedAt"} -> "num"
    [] path = "hasSalary" -> "bool"
    [] path \in {"address", "company"} -> "object"
    [] OTHER -> "none"

getNestedValue(obj, path) ==
  CASE path = "company.name" -> obj.company.name
    [] path = "address.city" -> obj.address.city
    [] path \in DOMAIN obj -> obj[path]
    [] OTHER -> Undef

\* a > b for two values read at the same path
Greater(a, b, kind) ==
  CASE kind = "text" -> a # UndefText /\ b # UndefText /\ TextGt(a, b)
    [] kind = "num" -> a # UndefNum /\ b # UndefNum /\ a > b
    [] kind = "bool" -> a = "true" /\ b = "false"
    [] OTHER -> FALSE

\* the comparator handed to Array.prototype.sort
SortCompare(a, b, filters) ==
  LET kind == FieldKind(filters.sortBy)
      aValue == getNestedValue(a, filters.sortBy)
      bValue == getNestedValue(b, filters.sortBy)
  IN IF Has(filters, "sortOrder") /\ filters.sortOrder = "desc"
     THEN (IF Greater(bValue, aValue, kind) THEN 1 ELSE -1)
     ELSE (IF Greater(aValue, bValue, kind) THEN 1 ELSE -1)

(***************************************************************************)
(* Array.prototype.sort.  The comparator never returns 0, so it is not a   *)
(* consistent comparator and the order of the result is up to the engine.  *)
(* Two engines are modelled for arrays shorter than their merge threshold: *)
(*   "timsort"    V8: the leading run is found (a strictly descending run  *)
(*                is reversed), the rest is placed by binary insertion     *)
(*   "insertion"  SpiderMonkey: linear insertion from the right            *)
(***************************************************************************)
Engines == {"timsort", "insertion"}

Reverse(s) == [i \in 1..Len(s) |-> s[Len(s) + 1 - i]]
InsertAt(s, k, x) == SubSeq(s, 1, k) \o <<x>> \o SubSeq(s, k + 1, Len(s))

RECURSIVE RunLength(_, _, _, _)
RunLength(s, f, descending, idx) ==
  IF idx > Len(s) THEN idx - 1
  ELSE LET order == SortCompare(s[idx], s[idx - 1], f)
       IN IF (descending /\ order >= 0) \/ (~descending /\ order < 0)
          THEN idx - 1
          ELSE RunLength(s, f, descending, idx + 1)

\* position (number of elements left of it) where the pivot is inserted
RECURSIVE BinarySearch(_, _, _, _, _)
BinarySearch(s, f, pivot, left, right) ==
  IF left >= right THEN left
  ELSE LET mid == left + ((right - left) \div 2)
       IN IF SortCompare(pivot, s[mid + 1], f) < 0
          THEN BinarySearch(s, f, pivot, left, mid)
          ELSE BinarySearch(s, f, pivot, mid + 1, right)

RECURSIVE BinaryInsertionSort(_, _, _)
BinaryInsertionSort(s, f, start) ==
  IF start > Len(s) THEN s
  ELSE LET pivot == s[start]
           sorted == SubSeq(s, 1, start - 1)
           left == BinarySearch(sorted, f, pivot, 0, start - 1)
       IN BinaryInsertionSort(
            InsertAt(sorted, left, pivot) \o SubSeq(s, start + 1, Len(s)),
            f, start + 1)

TimSort(s, f) ==
  IF Len(s) < 2 THEN s
  ELSE LET descending == SortCompare(s[2], s[1], f) < 0
           run == RunLength(s, f, descending, 3)
           made == IF descending
                   THEN Reverse(SubSeq(s, 1, run)) \o SubSeq(s, run + 1, Len(s))
                   ELSE s
       IN BinaryInsertionSort(made, f, run + 1)

\* number of elements of the sorted prefix that stay left of the item
RECURSIVE LinearSearch(_, _, _, _)
LinearSearch(sorted, f, item, j) ==
  IF j = 0 THEN 0
  ELSE IF SortCompare(sorted[j], item, f) <= 0 THEN j
  ELSE LinearSearch(sorted, f, item, j - 1)

RECURSIVE InsertionSort(_, _, _)
InsertionSort(s, f, i) ==
  IF i > Len(s) THEN s
  ELSE LET item == s[i]
           sorted == SubSeq(s, 1, i - 1)
           j == LinearSearch(sorted, f, item, i - 1)
       IN InsertionSort(
            InsertAt(sorted, j, item) \o SubSeq(s, i + 1, Len(s)), f, i + 1)

ArraySort(engine, s, f) ==
  IF engine = "timsort" THEN TimSort(s, f) ELSE InsertionSort(s, f, 2)

\* JavaScript truthiness of a user's hasSalary
Truthy(b) == b = "true"

\* the search predicate of one record: "yes", "no", or "throw" when
\* user.jobTitle is undefined and toLowerCase is called on it
SearchOutcome(user, search) ==
  IF \/ includes(toLowerCase(user.name), search)
     \/ includes(toLowerCase(user.email), search)
     \/ includes(toLowerCase(user.username), search)
  THEN "yes"
  ELSE IF user.jobTitle = UndefText THEN "throw"
  ELSE IF \/ includes(toLowerCase(user.jobTitle), search)
          \/ includes(toLowerCase(user.company.name), search)
          \/ includes(toLowerCase(user.address.city), search)
          \/ includes(user.phone, search)
  THEN "yes"
  ELSE "no"

\* Number(filters.salaryMin) compared with user.salary; NaN and undefined
\* compare false
SalaryAtLeast(user, bound) ==
  bound.kind = "num" /\ user.salary # UndefNum /\ user.salary >= bound.v
SalaryAtMost(user, bound) ==
  bound.kind = "num" /\ user.salary # UndefNum /\ user.salary <= bound.v

\* new Date(user.createdAt) >= new Date(bound); an Invalid Date compares false
CreatedNotBefore(user, bound) ==
  IF user.createdAt = UndefNum THEN FALSE
  ELSE bound.kind = "date" /\ user.createdAt >= bound.t
CreatedNotAfter(user, bound) ==
  IF user.createdAt = UndefNum THEN FALSE
  ELSE bound.kind = "date" /\ user.createdAt <= bound.t

\* filtered.filter(user => ... includes(search) ...), when nothing throws
BySearch(s, filters) ==
  IF Has(filters, "search") /\ filters.search # <<>>
  THEN SelectIdx(s, {i \in 1..Len(s) :
         SearchOutcome(s[i], toLowerCase(filters.search)) = "yes"}, 1)
  ELSE s

\* the search filter reads jobTitle of a record that has none
SearchThrows(s, filters) ==
  /\ Has(filters, "search") /\ filters.search # <<>>
  /\ \E i \in 1..Len(s) :
       SearchOutcome(s[i], toLowerCase(filters.search)) = "throw"

ByRole(s, filters) ==
  IF Has(filters, "role") /\ filters.role # <<>> /\ filters.role # All
  THEN SelectIdx(s, {i \in 1..Len(s) : s[i].role = filters.role}, 1)
  ELSE s

ByStatus(s, filters) ==
  IF Has(filters, "status") /\ filters.status # <<>> /\ filters.status # All
  THEN SelectIdx(s, {i \in 1..Len(s) : s[i].status = filters.status}, 1)
  ELSE s

ByHasSalary(s, filters) ==
  IF Has(filters, "hasSalary") /\ filters.hasSalary # ""
     /\ filters.hasSalary # "all"
  THEN IF filters.hasSalary = "yes"
       THEN SelectIdx(s, {i \in 1..Len(s) : Truthy(s[i].hasSalary)}, 1)
       ELSE IF filters.hasSalary = "no"
       THEN SelectIdx(s, {i \in 1..Len(s) : ~Truthy(s[i].hasSalary)}, 1)
       ELSE s
  ELSE s

\* the salaryMin filter without the hasSalary test
BySalaryMinAnyRecord(s, filters) ==
  IF Has(filters, "salaryMin") /\ filters.salaryMin.kind # "empty"
  THEN SelectIdx(s, {i \in 1..Len(s) :
         SalaryAtLeast(s[i], filters.salaryMin)}, 1)
  ELSE s

BySalaryMin(s, filters) ==
  IF Has(filters, "salaryMin") /\ filters.salaryMin.kind # "empty"
  THEN SelectIdx(s, {i \in 1..Len(s) :
         Truthy(s[i].hasSalary) /\ SalaryAtLeast(s[i], filters.salaryMin)}, 1)
  ELSE s

BySalaryMax(s, filters) ==
  IF Has(filters, "salaryMax") /\ filters.salaryMax.kind # "empty"
  THEN SelectIdx(s, {i \in 1..Len(s) :
         Truthy(s[i].hasSalary) /\ SalaryAtMost(s[i], filters.salaryMax)}, 1)
  ELSE s

ByCompany(s, filters) ==
  IF Has(filters, "company") /\ trim(filters.company) # <<>>
  THEN SelectIdx(s, {i \in 1..Len(s) :
         includes(toLowerCase(s[i].company.name),
                  toLowerCase(filters.company))}, 1)
  ELSE s

\* the filters between the search filter and the job title filter
AfterSearch(s, filters) ==
  ByCompany(BySalaryMax(BySalaryMin(ByHasSalary(ByStatus(ByRole(s, filters),
    filters), filters), filters), filters), filters)

ByJobTitle(s, filters) ==
  IF Has(filters, "jobTitle") /\ trim(filters.jobTitle) # <<>>
  THEN SelectIdx(s, {i \in 1..Len(s) :
         includes(toLowerCase(s[i].jobTitle),
                  toLowerCase(filters.jobTitle))}, 1)
  ELSE s

\* the job title filter reads jobTitle of a record that has none
JobTitleThrows(s, filters) ==
  /\ Has(filters, "jobTitle") /\ trim(filters.jobTitle) # <<>>
  /\ \E i \in 1..Len(s) : s[i].jobTitle = UndefText

ByCity(s, filters) ==
  IF Has(filters, "city") /\ trim(filters.city) # <<>>
  THEN SelectIdx(s, {i \in 1..Len(s) :
         includes(toLowerCase(s[i].address.city),
                  toLowerCase(filters.city))}, 1)
  ELSE s

ByCreatedAfter(s, filters) ==
  IF Has(filters, "createdAfter") /\ filters.createdAfter.kind # "blank"
  THEN SelectIdx(s, {i \in 1..Len(s) :
         CreatedNotBefore(s[i], filters.createdAfter)}, 1)
  ELSE s

ByCreatedBefore(s, filters) ==
  IF Has(filters, "createdBefore") /\ filters.createdBefore.kind # "blank"
  THEN SelectIdx(s, {i \in 1..Len(s) :
         CreatedNotAfter(s[i], filters.createdBefore)}, 1)
  ELSE s

Sorted(engine, s, filters) ==
  IF Has(filters, "sortBy") /\ filters.sortBy # ""
  THEN ArraySort(engine, s, filters)
  ELSE s

\* the filters after the job title filter, and the sort
AfterJobTitle(engine, s, filters) ==
  Sorted(engine,
         ByCreatedBefore(ByCreatedAfter(ByCity(s, filters), filters), filters),
         filters)

\* filterUsers: [threw |-> TRUE] when a TypeError is thrown, else
\* [threw |-> FALSE, value |-> the filtered and sorted records]
filterUsers(engine, users, filters) ==
  IF \/ SearchThrows(users, filters)
     \/ JobTitleThrows(AfterSearch(BySearch(users, filters), filters), filters)
  THEN [threw |-> TRUE, value |-> <<>>]
  ELSE [threw |-> FALSE,
        value |-> AfterJobTitle(engine,
                    ByJobTitle(AfterSearch(BySearch(users, filters), filters),
                               filters),
                    filters)]

(***************************************************************************)
(* Inputs of the hook model                                                *)
(***************************************************************************)
ServerIds == 1..NumServerUsers
IdBase == 100            \* stands for the epoch offset of Date.now()

\* the profile the backing source holds for a listed id
ServerName(id) == IF id % 2 = 1 THEN <<66, 111>> ELSE <<97, 108>>  \* Bo, al

ServerRecord(id) ==
  [id |-> id, name |-> ServerName(id), username |-> <<117>>,
   email |-> <<101>>, phone |-> <<49>>, website |-> <<119>>,
   address |-> [street |-> <<115>>, suite |-> <<65>>, city |-> <<99>>,
                zipcode |-> <<57>>, geo |-> <<49>>],
   company |-> [name |-> <<110>>, catchPhrase |-> <<112>>, bs |-> <<98>>]]

\* values entered in the user form (UserFormData)
FormInputs ==
  {[name |-> <<90, 111>>, username |-> <<122>>, email |-> <<101>>,
    phone |-> <<50>>, website |-> <<119>>,
    company |-> [name |-> <<109>>],
    address |-> [street |-> <<116>>, city |-> <<100>>, zipcode |-> <<56>>],
    role |-> Admin, status |-> Inactive,
    jobTitle |-> <<100, 101, 118>>, salary |-> 5, hasSalary |-> "true"]}

\* sampled outcomes of the three Math.random() draws of enhanceUser:
\* the status, the role and the age of createdAt in clock units
RandomOutcomes ==
  {[status |-> Active, role |-> UserRole, age |-> 1],
   [status |-> Inactive, role |-> Admin, age |-> 0]}

\* partial criteria handed to setFilters, and queries handed to searchUsers
FilterInputs == {[role |-> Admin, sortBy |-> "role", sortOrder |-> "desc"]}
SearchInputs == {<<97>>}
Limits == 1..MaxLimit

defaultFilters ==
  [search |-> <<>>, role |-> All, status |-> All,
   sortBy |-> "name", sortOrder |-> "asc"]

\* { ...prev, ...newFilters }
Merge(prev, newer) == newer @@ prev

(***************************************************************************)
(* ApiService (services/api.ts)                                            *)
(***************************************************************************)
\* enhanceUser: the avatar, and random status, role and createdAt, replace
\* whatever the argument carried; updatedAt is the current time
enhanceUser(user, rnd, time) ==
  [avatar |-> generateAvatarUrl(user.name),
   status |-> rnd.status,
   role |-> rnd.role,
   createdAt |-> time - rnd.age,
   updatedAt |-> time] @@ user

\* properties the user form knows and the request bodies leave out
NoEmployment ==
  [jobTitle |-> UndefText, salary |-> UndefNum, hasSalary |-> Undef]

\* the body of POST /users and PUT /users/:id, echoed by the backing source
RequestBody(userData, phrase, business) ==
  [name |-> userData.name, username |-> userData.username,
   email |-> userData.email, phone |-> userData.phone,
   website |-> userData.website,
   company |-> [name |-> userData.company.name, catchPhrase |-> phrase,
                bs |-> business],
   address |-> [street |-> userData.address.street, suite |-> <<83>>,
                city |-> userData.address.city,
                zipcode |-> userData.address.zipcode, geo |-> <<48>>]]

\* ApiService.getUsers(1, 1000): every listed record enhanced
ApiGetUsers(rnd, time) ==
  LET enhancedUsers ==
        [k \in 1..NumServerUsers |->
           enhanceUser(ServerRecord(k) @@ NoEmployment, rnd[k], time)]
  IN slice(enhancedUsers, 0, 1000)

\* ApiService.createUser: the id is Date.now()
ApiCreateUser(userData, rnd, time) ==
  enhanceUser([id |-> IdBase + time,
               role |-> IF userData.role = UndefText THEN UserRole
                        ELSE userData.role,
               status |-> IF userData.status = UndefText THEN Active
                          ELSE userData.status]
              @@ RequestBody(userData, <<71>>, <<71>>) @@ NoEmployment,
              rnd, time)

\* ApiService.updateUser
ApiUpdateUser(id, userData, rnd, time) ==
  enhanceUser([role |-> userData.role, status |-> userData.status,
               updatedAt |-> time]
              @@ [id |-> id] @@ RequestBody(userData, <<85>>, <<85>>)
              @@ NoEmployment,
              rnd, time)

(***************************************************************************)
(* useUsers (hooks/useUsers.ts): state                                     *)
(***************************************************************************)
VARIABLES
  allUsers,      \* useState: the record store
  loading,       \* useState
  error,         \* useState: "null" or a message
  currentPage,   \* useState
  itemsPerPage,  \* useState
  filters,       \* useState
  pending,       \* calls suspended at the await of their backing call
  now,           \* the clock read by Date.now() and new Date(): it has moved
                 \* on whenever a handler is invoked, two backing calls may
                 \* settle within the same millisecond
  calls,         \* handlers the page has invoked so far
  crashed,       \* the render threw out of the filteredUsers memo
  serial,        \* the page disables its controls while a call is in flight
  last,          \* what the most recent step of the hook was
  pure,          \* inputs and results of a helper applied on its own
  form,          \* the Users page's user form: useForm state and dialog state
  auth           \* AuthProvider's state and the auth_token in localStorage

vars == <<allUsers, loading, error, currentPage, itemsPerPage, filters,
          pending, now, calls, crashed, serial, last, pure, form, auth>>

\* a component that is not mounted
Unmounted == [mounted |-> FALSE]
Aside == form = Unmounted /\ auth = Unmounted
StayAside == UNCHANGED <<form, auth>>

NoForm == [none |-> TRUE]
Idle == [fn |-> "idle"]

Ids(s) == {s[i].id : i \in 1..Len(s)}

\* the filteredUsers memo
filteredUsersOf(eng, all, f) ==
  IF DOMAIN f = {} \/ Len(all) = 0
  THEN [threw |-> FALSE, value |-> all]
  ELSE filterUsers(eng, all, f)

\* The memo throws before it sorts, so whether it throws, and how many
\* records it keeps, is the same on every engine.
filteredUsers(eng) == filteredUsersOf(eng, allUsers, filters).value
totalItems == Len(filteredUsers("timsort"))
totalPages == calculateTotalPages(totalItems, itemsPerPage)

\* the users state: the pagination effect stores the current page of the
\* memo after every render, so it is a function of the rest of the state
users(eng) == paginateArray(filteredUsers(eng), currentPage, itemsPerPage)

\* the render that follows a state change: a throw out of the memo unmounts
\* the component
Render == crashed' = filteredUsersOf("timsort", allUsers', filters').threw

\* Array.prototype.map(u => u.id === id ? by : u)
ReplaceId(s, id, by) == [i \in 1..Len(s) |-> IF s[i].id = id THEN by ELSE s[i]]
\* Array.prototype.find(u => u.id === id), for an id that is present
FindId(s, id) == s[CHOOSE i \in 1..Len(s) :
                      s[i].id = id /\ \A j \in 1..(i - 1) : s[j].id # id]
\* Array.prototype.filter(u => !ids.includes(u.id)) and its complement
WithoutIds(s, ids) == SelectIdx(s, {i \in 1..Len(s) : s[i].id \notin ids}, 1)
OnlyIds(s, ids) == SelectIdx(s, {i \in 1..Len(s) : s[i].id \in ids}, 1)

\* the promise slot a new call takes
FreeSlot ==
  CHOOSE k \in 1..(Cardinality(pending) + 1) :
    /\ \A c \in pending : c.cid # k
    /\ \A j \in 1..(k - 1) : \E c \in pending : c.cid = j

\* a call record while its backing call is pending
Call(op, id, ids, data, old) ==
  [cid |-> FreeSlot, op |-> op, id |-> id, ids |-> ids, left |-> ids,
   data |-> data, old |-> old, before |-> allUsers]

Event(op, event, c) ==
  [op |-> op, event |-> event, cid |-> c.cid, id |-> c.id, ids |-> c.ids,
   left |-> c.left, before |-> c.before, page |-> currentPage]
Setter(op) ==
  [op |-> op, event |-> "set", cid |-> 0, id |-> 0, ids |-> {},
   left |-> {}, before |-> allUsers, page |-> currentPage]

CanStart ==
  /\ ~crashed
  /\ calls < MaxCalls
  /\ Cardinality(pending) < MaxPending
  /\ serial => pending = {}

\* ids a caller may hold: listed by the backing source or shown in the store
KnownIds == ServerIds \cup Ids(allUsers)

Init ==
  /\ allUsers = <<>>
  /\ loading = TRUE
  /\ error = "null"
  /\ currentPage = 1
  /\ itemsPerPage \in Limits        \* the initialLimit option
  /\ filters = defaultFilters
  /\ pending = {[cid |-> 1, op |-> "fetchUsers", id |-> 0, ids |-> {},
                 left |-> {}, data |-> NoForm, old |-> <<>>,
                 before |-> <<>>]}
  /\ now = 1
  /\ calls = 0
  /\ crashed = FALSE
  /\ serial \in BOOLEAN
  /\ last = [op |-> "fetchUsers", event |-> "started", cid |-> 1, id |-> 0,
             ids |-> {}, left |-> {}, before |-> <<>>, page |-> 1]
  /\ pure = Idle
  /\ Aside

(***************************************************************************)
(* useUsers: fetchUsers                                                    *)
(***************************************************************************)
FetchUsers ==
  /\ CanStart
  /\ LET c == Call("fetchUsers", 0, {}, NoForm, <<>>)
     IN /\ pending' = pending \cup {c}
        /\ last' = Event("fetchUsers", "started", c)
  /\ loading' = TRUE
  /\ error' = "null"
  /\ calls' = calls + 1
  /\ now' = now + 1
  /\ UNCHANGED <<allUsers, currentPage, itemsPerPage, filters, serial, pure,
                 form, auth>>
  /\ Render

FetchUsersResolve ==
  \E c \in pending, rnd \in [ServerIds -> RandomOutcomes] :
    /\ ~crashed
    /\ c.op = "fetchUsers"
    /\ allUsers' = ApiGetUsers(rnd, now)
    /\ loading' = FALSE
    /\ pending' = pending \ {c}
    /\ last' = Event("fetchUsers", "resolved", c)
    /\ UNCHANGED <<error, currentPage, itemsPerPage, filters, now, calls,
                   serial, pure, form, auth>>
    /\ Render

FetchUsersReject ==
  \E c \in pending :
    /\ ~crashed
    /\ c.op = "fetchUsers"
    /\ error' = "Failed to fetch users"
    /\ loading' = FALSE
    /\ pending' = pending \ {c}
    /\ last' = Event("fetchUsers", "rejected", c)
    /\ UNCHANGED <<allUsers, currentPage, itemsPerPage, filters, now, calls,
                   serial, pure, form, auth>>
    /\ Render

(***************************************************************************)
(* useUsers: createUser                                                    *)
(***************************************************************************)
\* an insert that leaves a provisional copy with a placeholder id behind
InsertCreatedKeepsPlaceholder(all, newUser) ==
  <<newUser, [newUser EXCEPT !.id = 0]>> \o all

\* setAllUsers(prev => [newUser, ...prev])
InsertCreated(all, newUser) == <<newUser>> \o all

CreateUser ==
  \E userData \in FormInputs :
    /\ CanStart
    /\ Len(allUsers) < MaxUsers
    /\ LET c == Call("createUser", 0, {}, userData, <<>>)
       IN /\ pending' = pending \cup {c}
          /\ last' = Event("createUser", "started", c)
    /\ loading' = TRUE
    /\ calls' = calls + 1
    /\ now' = now + 1
    /\ UNCHANGED <<allUsers, error, currentPage, itemsPerPage, filters,
                   serial, pure, form, auth>>
    /\ Render

CreateUserResolve ==
  \E c \in pending, rnd \in RandomOutcomes :
    /\ ~crashed
    /\ c.op = "createUser"
    /\ LET newUser == ApiCreateUser(c.data, rnd, now)
       IN /\ allUsers' = InsertCreated(allUsers, newUser)
          /\ last' = Event("createUser", "resolved",
                           [c EXCEPT !.id = newUser.id])
    /\ loading' = FALSE
    /\ pending' = pending \ {c}
    /\ UNCHANGED <<error, currentPage, itemsPerPage, filters, now, calls,
                   serial, pure, form, auth>>
    /\ Render

CreateUserReject ==
  \E c \in pending :
    /\ ~crashed
    /\ c.op = "createUser"
    /\ loading' = FALSE
    /\ pending' = pending \ {c}
    /\ last' = Event("createUser", "rejected", c)
    /\ UNCHANGED <<allUsers, error, currentPage, itemsPerPage, filters, now,
                   calls, serial, pure, form, auth>>
    /\ Render

(***************************************************************************)
(* useUsers: updateUser                                                    *)
(***************************************************************************)
OptimisticUser(oldUser, userData, time) ==
  [address |-> userData.address @@ oldUser.address,
   company |-> userData.company @@ oldUser.company,
   updatedAt |-> time] @@ userData @@ oldUser

\* a rollback that leaves the optimistic updatedAt on the restored record
RollbackUpdateKeepsStamp(all, c) ==
  ReplaceId(all, c.id,
            [c.old[1] EXCEPT !.updatedAt = FindId(all, c.id).updatedAt])

\* the rollback of the catch block: prev.map(u => u.id === id ? oldUser : u)
RollbackUpdate(all, c) == ReplaceId(all, c.id, c.old[1])

UpdateUser ==
  \E id \in KnownIds, userData \in FormInputs :
    /\ CanStart
    /\ calls' = calls + 1
    /\ now' = now + 1
    /\ IF id \notin Ids(allUsers)
       THEN /\ loading' = FALSE
            /\ UNCHANGED pending
            /\ last' = Event("updateUser", "notfound",
                             Call("updateUser", id, {}, userData, <<>>))
            /\ UNCHANGED allUsers
       ELSE LET oldUser == FindId(allUsers, id)
                c == Call("updateUser", id, {}, userData, <<oldUser>>)
            IN /\ loading' = TRUE
               /\ allUsers' =
                    ReplaceId(allUsers, id,
                              OptimisticUser(oldUser, userData, now + 1))
               /\ pending' = pending \cup {c}
               /\ last' = Event("updateUser", "started", c)
    /\ UNCHANGED <<error, currentPage, itemsPerPage, filters, serial, pure,
                   form, auth>>
    /\ Render

UpdateUserResolve ==
  \E c \in pending, rnd \in RandomOutcomes :
    /\ ~crashed
    /\ c.op = "updateUser"
    /\ LET updatedUser == ApiUpdateUser(c.id, c.data, rnd, now)
       IN allUsers' = ReplaceId(allUsers, c.id, updatedUser)
    /\ loading' = FALSE
    /\ pending' = pending \ {c}
    /\ last' = Event("updateUser", "resolved", c)
    /\ UNCHANGED <<error, currentPage, itemsPerPage, filters, now, calls,
                   serial, pure, form, auth>>
    /\ Render

UpdateUserReject ==
  \E c \in pending :
    /\ ~crashed
    /\ c.op = "updateUser"
    /\ allUsers' = RollbackUpdate(allUsers, c)
    /\ loading' = FALSE
    /\ pending' = pending \ {c}
    /\ last' = Event("updateUser", "rejected", c)
    /\ UNCHANGED <<error, currentPage, itemsPerPage, filters, now, calls,
                   serial, pure, form, auth>>
    /\ Render

(***************************************************************************)
(* useUsers: deleteUser                                                    *)
(***************************************************************************)
\* a rollback that restores one record only
RollbackDeleteOne(all, c) == all \o SubSeq(c.old, 1, 1)

\* the rollback of the catch blocks: [...prev, userToDelete] and
\* [...prev, ...usersToDelete]
RollbackDelete(all, c) == all \o c.old

DeleteUser ==
  \E id \in KnownIds :
    /\ CanStart
    /\ calls' = calls + 1
    /\ now' = now + 1
    /\ IF id \notin Ids(allUsers)
       THEN /\ loading' = FALSE
            /\ UNCHANGED pending
            /\ last' = Event("deleteUser", "notfound",
                             Call("deleteUser", id, {}, NoForm, <<>>))
            /\ UNCHANGED allUsers
       ELSE LET userToDelete == FindId(allUsers, id)
                c == Call("deleteUser", id, {}, NoForm, <<userToDelete>>)
            IN /\ loading' = TRUE
               /\ allUsers' = WithoutIds(allUsers, {id})
               /\ pending' = pending \cup {c}
               /\ last' = Event("deleteUser", "started", c)
    /\ UNCHANGED <<error, currentPage, itemsPerPage, filters, serial, pure,
                   form, auth>>
    /\ Render

DeleteUserResolve ==
  \E c \in pending :
    /\ ~crashed
    /\ c.op = "deleteUser"
    /\ loading' = FALSE
    /\ pending' = pending \ {c}
    /\ last' = Event("deleteUser", "resolved", c)
    /\ UNCHANGED <<allUsers, error, currentPage, itemsPerPage, filters, now,
                   calls, serial, pure, form, auth>>
    /\ Render

DeleteUserReject ==
  \E c \in pending :
    /\ ~crashed
    /\ c.op = "deleteUser"
    /\ allUsers' = RollbackDelete(allUsers, c)
    /\ loading' = FALSE
    /\ pending' = pending \ {c}
    /\ last' = Event("deleteUser", "rejected", c)
    /\ UNCHANGED <<error, currentPage, itemsPerPage, filters, now, calls,
                   serial, pure, form, auth>>
    /\ Render

(***************************************************************************)
(* useUsers: deleteUsers, over ApiService.deleteUsers (Promise.all of one  *)
(* DELETE per id: it resolves when the last one has, and rejects with the  *)
(* first that fails)                                                       *)
(***************************************************************************)
DeleteUsers ==
  \E ids \in SUBSET KnownIds :
    /\ ids # {}
    /\ CanStart
    /\ calls' = calls + 1
    /\ now' = now + 1
    /\ LET usersToDelete == OnlyIds(allUsers, ids)
           c == Call("deleteUsers", 0, ids, NoForm, usersToDelete)
       IN /\ pending' = pending \cup {c}
          /\ last' = Event("deleteUsers", "started", c)
    /\ loading' = TRUE
    /\ allUsers' = WithoutIds(allUsers, ids)
    /\ UNCHANGED <<error, currentPage, itemsPerPage, filters, serial, pure,
                   form, auth>>
    /\ Render

\* every DELETE of the call succeeds
DeleteUsersResolve ==
  \E c \in pending :
    /\ ~crashed
    /\ c.op = "deleteUsers"
    /\ loading' = FALSE
    /\ pending' = pending \ {c}
    /\ last' = Event("deleteUsers", "resolved", [c EXCEPT !.left = {}])
    /\ UNCHANGED <<allUsers, error, currentPage, itemsPerPage, filters, now,
                   calls, serial, pure, form, auth>>
    /\ Render

\* the DELETE of id fails after those of done succeeded; the others are
\* still in flight when Promise.all rejects
DeleteUsersReject ==
  \E c \in pending :
    \E id \in c.ids :
      \E done \in SUBSET (c.ids \ {id}) :
        /\ ~crashed
        /\ c.op = "deleteUsers"
        /\ allUsers' = RollbackDelete(allUsers, c)
        /\ loading' = FALSE
        /\ pending' = pending \ {c}
        /\ last' = Event("deleteUsers", "rejected",
                         [c EXCEPT !.id = id, !.left = c.ids \ done])
        /\ UNCHANGED <<error, currentPage, itemsPerPage, filters, now, calls,
                       serial, pure, form, auth>>
        /\ Render

(***************************************************************************)
(* useUsers: search, pagination and filter controls                        *)
(***************************************************************************)
SearchUsers ==
  \E query \in SearchInputs :
    /\ ~crashed /\ calls < MaxCalls
    /\ calls' = calls + 1
    /\ filters' = Merge(filters, [search |-> query])
    /\ currentPage' = 1
    /\ last' = Setter("searchUsers")
    /\ UNCHANGED <<allUsers, loading, error, itemsPerPage, pending, now,
                   serial, pure, form, auth>>
    /\ Render

\* the pagination control offers the pages 1..totalPages
SetPage ==
  \E page \in 1..totalPages :
    /\ ~crashed /\ calls < MaxCalls
    /\ calls' = calls + 1
    /\ currentPage' = page
    /\ last' = Setter("setPage")
    /\ UNCHANGED <<allUsers, loading, error, itemsPerPage, filters, pending,
                   now, serial, pure, form, auth>>
    /\ Render

\* setLimit without the page reset
SetLimitKeepsPage ==
  \E limit \in Limits :
    /\ ~crashed /\ calls < MaxCalls
    /\ calls' = calls + 1
    /\ itemsPerPage' = limit
    /\ last' = Setter("setLimit")
    /\ UNCHANGED <<allUsers, loading, error, currentPage, filters, pending,
                   now, serial, pure, form, auth>>
    /\ Render

SetLimit ==
  \E limit \in Limits :
    /\ ~crashed /\ calls < MaxCalls
    /\ calls' = calls + 1
    /\ itemsPerPage' = limit
    /\ currentPage' = 1
    /\ last' = Setter("setLimit")
    /\ UNCHANGED <<allUsers, loading, error, filters, pending, now, serial,
                   pure, form, auth>>
    /\ Render

SetFilters ==
  \E newFilters \in FilterInputs :
    /\ ~crashed /\ calls < MaxCalls
    /\ calls' = calls + 1
    /\ filters' = Merge(filters, newFilters)
    /\ currentPage' = 1
    /\ last' = Setter("setFilters")
    /\ UNCHANGED <<allUsers, loading, error, itemsPerPage, pending, now,
                   serial, pure, form, auth>>
    /\ Render

\* resetFilters that also empties the store, as a reload would
ResetFiltersReloads ==
  /\ ~crashed /\ calls < MaxCalls
  /\ calls' = calls + 1
  /\ filters' = defaultFilters
  /\ currentPage' = 1
  /\ allUsers' = <<>>
  /\ last' = Setter("resetFilters")
  /\ UNCHANGED <<loading, error, itemsPerPage, pending, now, serial, pure,
                 form, auth>>
  /\ Render

ResetFilters ==
  /\ ~crashed /\ calls < MaxCalls
  /\ calls' = calls + 1
  /\ filters' = defaultFilters
  /\ currentPage' = 1
  /\ last' = Setter("resetFilters")
  /\ UNCHANGED <<allUsers, loading, error, itemsPerPage, pending, now, serial,
                 pure, form, auth>>
  /\ Render

Next ==
  \/ FetchUsers \/ FetchUsersResolve \/ FetchUsersReject
  \/ CreateUser \/ CreateUserResolve \/ CreateUserReject
  \/ UpdateUser \/ UpdateUserResolve \/ UpdateUserReject
  \/ DeleteUser \/ DeleteUserResolve \/ DeleteUserReject
  \/ DeleteUsers \/ DeleteUsersResolve
  \/ DeleteUsersReject
  \/ SearchUsers \/ SetPage \/ SetLimit \/ SetFilters \/ ResetFilters

Spec == Init /\ [][Next]_vars

\* the hook under a page that never overlaps two calls
SerialInit == Init /\ serial
SerialSpec == SerialInit /\ [][Next]_vars


(***************************************************************************)
(* paginateArray and calculateTotalPages applied on their own: an array    *)
(* and a limit are drawn, then the pages 1..totalPages are taken in turn   *)
(***************************************************************************)
Elements == {1, 2}
RECURSIVE Arrays(_)
Arrays(n) ==
  IF n = 0 THEN {<<>>}
  ELSE Arrays(n - 1)
       \cup {Append(a, e) : a \in {b \in Arrays(n - 1) : Len(b) = n - 1},
                            e \in Elements}

RECURSIVE Concat(_)
Concat(pages) ==
  IF pages = <<>> THEN <<>> ELSE Head(pages) \o Concat(Tail(pages))

PaginateInit ==
  /\ allUsers = <<>>
  /\ loading = FALSE
  /\ error = "null"
  /\ currentPage = 1
  /\ itemsPerPage = 1
  /\ filters = defaultFilters
  /\ pending = {}
  /\ now = 1
  /\ calls = 0
  /\ crashed = FALSE
  /\ serial = TRUE
  /\ last = Setter("none")
  /\ Aside
  /\ \E array \in Arrays(MaxLen), limit \in 1..(MaxLimit + 1) :
       pure = [fn |-> "paginateArray", array |-> array, limit |-> limit,
               total |-> calculateTotalPages(Len(array), limit),
               pages |-> <<>>]

PaginateNextPage ==
  /\ pure.fn = "paginateArray"
  /\ Len(pure.pages) < pure.total
  /\ pure' = [pure EXCEPT !.pages =
                Append(@, paginateArray(pure.array, Len(pure.pages) + 1,
                                        pure.limit))]
  /\ UNCHANGED <<allUsers, loading, error, currentPage, itemsPerPage, filters,
                 pending, now, calls, crashed, serial, last, form, auth>>

PaginateNext == PaginateNextPage

PaginateSpec == PaginateInit /\ [][PaginateNext]_vars

(***************************************************************************)
(* The hook at rest while a helper of lib/utils.ts is applied on its own   *)
(***************************************************************************)
Parked ==
  /\ allUsers = <<>>
  /\ loading = FALSE
  /\ error = "null"
  /\ currentPage = 1
  /\ itemsPerPage = 1
  /\ filters = defaultFilters
  /\ pending = {}
  /\ now = 1
  /\ calls = 0
  /\ crashed = FALSE
  /\ serial = TRUE
  /\ last = Setter("none")

StayParked ==
  UNCHANGED <<allUsers, loading, error, currentPage, itemsPerPage, filters,
              pending, now, calls, crashed, serial, last>>

(***************************************************************************)
(* paginateArray applied to one page number, pages below 1 and above the   *)
(* last page included                                                      *)
(***************************************************************************)
PageInit ==
  /\ Parked
  /\ Aside
  /\ \E array \in Arrays(MaxLen), limit \in 1..(MaxLimit + 1) :
       pure = [fn |-> "page", array |-> array, limit |-> limit,
               total |-> calculateTotalPages(Len(array), limit),
               called |-> FALSE, page |-> 1, result |-> <<>>]

PageAt ==
  \E page \in (1 - MaxPageOff)..(pure.total + MaxPageOff) :
    /\ pure.fn = "page"
    /\ ~pure.called
    /\ pure' = [pure EXCEPT !.called = TRUE, !.page = page,
                            !.result = paginateArray(pure.array, page,
                                                     pure.limit)]
    /\ StayParked
    /\ StayAside

PageNext == PageAt

PageSpec == PageInit /\ [][PageNext]_vars

(***************************************************************************)
(* filterUsers applied on its own: a collection and criteria are drawn,    *)
(* filterUsers is applied to the collection and then to its own result     *)
(***************************************************************************)
SampleUser(id, role, status, jobTitle, salary, hasSalary, createdAt) ==
  [role |-> role, status |-> status, jobTitle |-> jobTitle,
   salary |-> salary, hasSalary |-> hasSalary, createdAt |-> createdAt,
   updatedAt |-> createdAt, avatar |-> generateAvatarUrl(ServerName(id))]
  @@ ServerRecord(id)

\* records as the user form and the backing source produce them: with and
\* without a salary, with and without a job title, two of them admins, one
\* with hasSalary false and a number left in its salary field
SampleUsers ==
  {SampleUser(1, Admin, Active, <<100, 101, 118>>, UndefNum, "false", 3),
   SampleUser(2, UserRole, Active, <<100, 101, 118>>, 120000, "true", 5),
   SampleUser(3, Admin, Inactive, <<113, 97>>, 50000, "true", 7),
   SampleUser(4, Manager, Active, UndefText, UndefNum, Undef, 5),
   SampleUser(5, UserRole, Inactive, <<113, 97>>, 70000, "false", 9)}

\* arrays of at most n distinct records of a pool
RECURSIVE Lists(_, _)
Lists(pool, n) ==
  IF n = 0 THEN {<<>>}
  ELSE {<<>>} \cup {<<x>> \o l : x \in pool, l \in Lists(pool, n - 1)}

Distinct(s) == \A i, j \in 1..Len(s) : i # j => s[i] # s[j]

NumBound(v) == [kind |-> "num", v |-> v]
DateBound(t) == [kind |-> "date", t |-> t]

\* Partial<UserFilters> values the filter panel and its callers produce
CriteriaInputs ==
  {defaultFilters,
   [search |-> <<>>],
   [sortBy |-> "role", sortOrder |-> "asc"],
   [sortBy |-> "role", sortOrder |-> "desc"],
   [sortBy |-> "salary", sortOrder |-> "asc"],
   [hasSalary |-> "yes", salaryMin |-> NumBound(100000)],
   [salaryMin |-> NumBound(0)],
   [salaryMin |-> NumBound(0), salaryMax |-> NumBound(60000)],
   [salaryMax |-> NumBound(60000), sortBy |-> "name", sortOrder |-> "desc"],
   [role |-> Admin, status |-> Active, hasSalary |-> "no"],
   [role |-> Admin, sortBy |-> "status", sortOrder |-> "asc"],
   [search |-> <<97>>],
   [search |-> <<98>>, status |-> Active],
   [jobTitle |-> <<68, 69>>],
   [company |-> <<78>>, city |-> <<67>>],
   [createdAfter |-> DateBound(5)],
   [createdAfter |-> DateBound(4), createdBefore |-> DateBound(6)],
   [sortBy |-> "salary", sortOrder |-> "desc"],
   [sortBy |-> "department"],
   [salaryMin |-> [kind |-> "nan"]],
   [salaryMax |-> [kind |-> "nan"], createdAfter |-> [kind |-> "invalid"]],
   [role |-> Admin, createdBefore |-> [kind |-> "invalid"]],
   [search |-> <<>>, role |-> All, status |-> <<>>, hasSalary |-> "all",
    salaryMin |-> [kind |-> "empty"], salaryMax |-> [kind |-> "empty"],
    company |-> <<32>>, jobTitle |-> <<>>, city |-> <<32, 32>>,
    createdAfter |-> [kind |-> "blank"],
    createdBefore |-> [kind |-> "blank"], sortBy |-> ""]}

NoResult == [threw |-> FALSE, value |-> <<>>]

FilterInit ==
  /\ Parked
  /\ Aside
  /\ \E engine \in Engines, records \in Lists(SampleUsers, MaxRecords),
        criteria \in CriteriaInputs :
       /\ Distinct(records)
       /\ pure = [fn |-> "filterUsers", engine |-> engine, users |-> records,
                  filters |-> criteria, called |-> FALSE,
                  once |-> NoResult, twice |-> NoResult]

\* filterUsers(users, filters), and filterUsers of what it returned
FilterApply ==
  /\ pure.fn = "filterUsers"
  /\ ~pure.called
  /\ LET once == filterUsers(pure.engine, pure.users, pure.filters)
     IN pure' = [pure EXCEPT
                   !.called = TRUE,
                   !.once = once,
                   !.twice = IF once.threw THEN once
                             ELSE filterUsers(pure.engine, once.value,
                                              pure.filters)]
  /\ StayParked
  /\ StayAside

FilterNext == FilterApply

FilterSpec == FilterInit /\ [][FilterNext]_vars

(***************************************************************************)
(* The user form of the Users page: useForm (hooks/useForm.ts) with the    *)
(* options UserForm gives it, and the page's showUserForm / editingUser.   *)
(* Of the form's values the name, role, job title, salary and hasSalary    *)
(* are modelled; the other fields hold entries that pass validation.       *)
(* createUser and updateUser are the hook's operations modelled above: the *)
(* page handlers look only at whether they returned a user or null.        *)
(***************************************************************************)
MaxSalary == 2      \* salaries typed into the form: -MaxSalary..MaxSalary
MaxSubmits == 1     \* onSubmit calls of one form

\* validators.required: '' when the value passes; kind tells a number from
\* a text (!value is true for 0 and for '')
required(message, value, kind) ==
  IF kind = "num"
  THEN (IF value = 0 THEN message ELSE "")
  ELSE (IF value = <<>> \/ trim(value) = <<>> THEN message ELSE "")

minLength(least, message, value) ==
  IF value = <<>> THEN ""
  ELSE IF Len(value) < least THEN message ELSE ""

\* validators.min (Math.min is not meant)
min(least, message, value) ==
  IF value < least THEN message ELSE ""

\* the first message of the validators that is not ''
composeValidators(messages) ==
  IF \A i \in 1..Len(messages) : messages[i] = "" THEN ""
  ELSE messages[CHOOSE i \in 1..Len(messages) :
                  /\ messages[i] # ""
                  /\ \A j \in 1..(i - 1) : messages[j] = ""]

nameError(values) ==
  composeValidators(<<
    required("Name is required", values.name, "text"),
    minLength(2, "Name must be at least 2 characters", values.name)>>)

jobTitleError(values) ==
  required("Job title is required", values.jobTitle, "text")

salaryError(values) ==
  IF values.hasSalary
  THEN composeValidators(<<
         required("Salary is required when salary status is enabled",
                  values.salary, "num"),
         min(0, "Salary must be a positive number", values.salary)>>)
  ELSE ""

\* UserForm.validateForm: the errors object, keyed by field
validateForm(values) ==
  [k \in ((IF nameError(values) # "" THEN {"name"} ELSE {})
          \cup (IF jobTitleError(values) # "" THEN {"jobTitle"} ELSE {})
          \cup (IF salaryError(values) # "" THEN {"salary"} ELSE {})) |->
     CASE k = "name" -> nameError(values)
       [] k = "jobTitle" -> jobTitleError(values)
       [] k = "salary" -> salaryError(values)]

NoErrors == validateForm([name |-> <<90, 111>>, jobTitle |-> <<100>>,
                          salary |-> 0, hasSalary |-> FALSE])

salaryRangesByRole(role) ==
  CASE role = Admin -> [min |-> 80000, max |-> 150000, default |-> 120000]
    [] role = Manager -> [min |-> 70000, max |-> 130000, default |-> 95000]
    [] role = UserRole -> [min |-> 40000, max |-> 100000, default |-> 65000]

initialFormData ==
  [name |-> <<>>, role |-> UserRole, jobTitle |-> <<>>, salary |-> 0,
   hasSalary |-> FALSE]

\* the records of the table that have an edit button in the model
Editable == {u \in SampleUsers : u.id = 2}
NoUser == 0
UserOf(id) == CHOOSE u \in SampleUsers : u.id = id

\* UserForm.getUserFormData(user), user given by its id (NoUser for null)
getUserFormData(id) ==
  IF id = NoUser THEN initialFormData
  ELSE [name |-> UserOf(id).name,
        role |-> UserOf(id).role,
        jobTitle |-> IF UserOf(id).jobTitle = UndefText THEN <<>>
                     ELSE UserOf(id).jobTitle,
        salary |-> IF UserOf(id).salary = UndefNum THEN 0
                   ELSE UserOf(id).salary,
        hasSalary |-> Truthy(UserOf(id).hasSalary)]

NameInputs == {<<>>, <<90, 111>>}
JobTitleInputs == {<<>>, <<100, 101, 118>>}
\* what is typed into the salary input: not a number, or a number
TypedSalaries == {[kind |-> "nan"]} \cup {NumBound(v) : v \in 0..MaxSalary}
                 \cup {NumBound(0 - v) : v \in 1..MaxSalary}
\* parseFloat(e.target.value) || 0
parseFloatOrZero(typed) == IF typed.kind = "nan" THEN 0 ELSE typed.v

NoSubmission == [none |-> TRUE]
FormEvent(op, outcome, entered) ==
  [op |-> op, outcome |-> outcome, entered |-> entered]

\* useForm.reset(newValues) on the form state f
reset(f, newValues) ==
  [f EXCEPT !.values = newValues, !.errors = NoErrors, !.touched = {},
            !.isSubmitting = FALSE]

\* the effect "run validation when values change" after a render
Validated(f) ==
  IF f.touched # {} THEN [f EXCEPT !.errors = validateForm(f.values)] ELSE f

\* useForm.setValue(name, value) on the form state f: the error of the
\* field is cleared
setValue(f, name, value) ==
  [f EXCEPT !.values = [@ EXCEPT ![name] = value],
            !.errors = [k \in (DOMAIN @) \ {name} |-> @[k]]]

\* the Users page's onClose: setShowUserForm(false); setEditingUser(null)
onClose(f) == [f EXCEPT !.showUserForm = FALSE, !.editingUser = NoUser]

\* what the step was, for the properties
Noted(f, op, outcome) == [f EXCEPT !.last = FormEvent(op, outcome, f.values)]

FormStill == StayParked /\ UNCHANGED <<pure, auth>>

FormInit ==
  /\ Parked
  /\ pure = Idle
  /\ auth = Unmounted
  /\ form = [mounted |-> TRUE, showUserForm |-> FALSE,
             editingUser |-> NoUser, values |-> initialFormData,
             errors |-> NoErrors, touched |-> {}, isSubmitting |-> FALSE,
             awaiting |-> NoSubmission, submits |-> 0, propagated |-> FALSE,
             last |-> FormEvent("mount", "none", initialFormData)]

\* the Add User button, or an Edit button of the table: the dialog opens and
\* UserForm's effect resets the form to the record's data
OpenForm ==
  \E id \in {NoUser} \cup {u.id : u \in Editable} :
    /\ form.mounted
    /\ ~form.showUserForm
    /\ form' = Noted([reset(form, getUserFormData(id)) EXCEPT
                        !.showUserForm = TRUE, !.editingUser = id],
                     "open", "none")
    /\ FormStill

\* UserForm.handleClose (Escape, the backdrop, the X and Cancel buttons)
HandleClose ==
  /\ form.mounted
  /\ form.showUserForm
  /\ form' = Noted(onClose(reset(form, getUserFormData(form.editingUser))),
                   "close", "none")
  /\ FormStill

ChangeName ==
  \E text \in NameInputs :
    /\ form.mounted
    /\ form.showUserForm
    /\ form' = Noted(Validated(setValue(form, "name", text)),
                   "change", "name")
    /\ FormStill

ChangeJobTitle ==
  \E text \in JobTitleInputs :
    /\ form.mounted
    /\ form.showUserForm
    /\ form' = Noted(Validated(setValue(form, "jobTitle", text)),
                   "change", "jobTitle")
    /\ FormStill

\* the salary input, rendered while hasSalary is checked
ChangeSalary ==
  \E typed \in TypedSalaries :
    /\ form.mounted
    /\ form.showUserForm
    /\ form.values.hasSalary
    /\ form' = Noted(Validated(setValue(form, "salary",
                                       parseFloatOrZero(typed))),
                     "change", "salary")
    /\ FormStill

\* UserForm.handleSalaryStatusChange(enabled)
HandleSalaryStatusChange ==
  \E enabled \in BOOLEAN :
    /\ form.mounted
    /\ form.showUserForm
    /\ form' = Noted(Validated(setValue(setValue(form, "hasSalary", enabled),
                    "salary",
                    IF enabled
                    THEN salaryRangesByRole(form.values.role).default
                    ELSE 0)),
                   "change", "hasSalary")
    /\ FormStill

\* useForm.handleBlur(name) of the name and salary inputs
HandleBlur ==
  \E name \in {"name", "salary"} :
    /\ form.mounted
    /\ form.showUserForm
    /\ name = "salary" => form.values.hasSalary
    /\ form' = Noted(Validated([form EXCEPT !.touched = @ \cup {name}]),
                   "blur", name)
    /\ FormStill

\* useForm.handleSubmit up to its await: the submit button is enabled while
\* the form is valid and no mutation is loading
HandleSubmit ==
  /\ form.mounted
  /\ form.showUserForm
  /\ form.errors = NoErrors
  /\ form.awaiting = NoSubmission
  /\ form.submits < MaxSubmits
  /\ IF validateForm(form.values) # NoErrors
     THEN form' = [form EXCEPT
                     !.touched = DOMAIN form.values,
                     !.errors = validateForm(form.values),
                     !.last = FormEvent("handleSubmit", "invalid",
                                        form.values)]
     ELSE form' = [form EXCEPT
                     !.touched = DOMAIN form.values,
                     !.errors = NoErrors,
                     !.isSubmitting = TRUE,
                     !.awaiting = [values |-> form.values,
                                   editing |-> form.editingUser],
                     !.submits = @ + 1,
                     !.last = FormEvent("handleSubmit", "called",
                                        form.values)]
  /\ FormStill

\* the rest of UserForm's onSubmit once the page handler has returned:
\* onClose(); form.reset(), with the initialValues of the render that
\* submitted
Finish(f) ==
  onClose(reset(f, getUserFormData(f.awaiting.editing)))

\* handleCreateUser / handleUpdateUser return after createUser / updateUser
\* returned a user ("user") or null ("null"), or the onSubmit prop rejects
\* ("threw") and handleSubmit's catch block logs the error; then the
\* finally block of handleSubmit
SubmitSettles ==
  \E outcome \in {"user", "null", "threw"} :
    /\ form.mounted
    /\ form.awaiting # NoSubmission
    /\ form' = [(IF outcome = "user" THEN Finish(onClose(form))
                 ELSE IF outcome = "null" THEN Finish(form)
                 ELSE form) EXCEPT
                  !.isSubmitting = FALSE,
                  !.awaiting = NoSubmission,
                  !.propagated = FALSE,
                  !.last = FormEvent("settled", outcome,
                                     form.awaiting.values)]
    /\ FormStill

FormNext ==
  \/ OpenForm
  \/ HandleClose
  \/ ChangeName
  \/ ChangeJobTitle
  \/ ChangeSalary
  \/ HandleSalaryStatusChange
  \/ HandleBlur
  \/ HandleSubmit
  \/ SubmitSettles

FormSpec == FormInit /\ [][FormNext]_vars

(***************************************************************************)
(* AuthProvider (contexts/AuthContext.tsx) with ApiService.login and       *)
(* ApiService.refreshToken.  auth.token is the auth_token of localStorage: *)
(*   "none"       no item                                                  *)
(*   "valid"      a token found at mount that has not expired              *)
(*   "expired"    a token found at mount whose exp has passed              *)
(*   "malformed"  a JSON string found at mount that is not a token         *)
(*   "login"      the token ApiService.login returned                      *)
(*   "refreshed"  the token ApiService.refreshToken returned               *)
(* auth.gated: login and logout are called the way the Login page and the  *)
(* Header call them (the Sign in button is disabled while isLoading, the   *)
(* Header is shown to an authenticated user); otherwise any consumer of    *)
(* useAuth calls them at any time.                                         *)
(***************************************************************************)
MaxLogins == 2      \* login calls in flight

StoredTokens == {"none", "valid", "expired", "malformed"}
NoRefresh == [none |-> TRUE]
AdminUser == "admin-1"

\* ApiService.refreshToken(token): whether the promise resolves
RefreshSucceeds(token) == token \in {"valid", "login", "refreshed"}

\* ApiService.login(email, password) resolves for the demo credentials only
Credentials == {"admin@example.com/password", "other"}
LoginSucceeds(credentials) == credentials = "admin@example.com/password"

AuthEvent(op, event, stale, rethrown) ==
  [op |-> op, event |-> event, stale |-> stale, rethrown |-> rethrown]

AuthStill == StayParked /\ UNCHANGED <<pure, form>>

\* the state after AuthProvider's mount effect has run up to its await
AuthInit ==
  /\ Parked
  /\ pure = Idle
  /\ form = Unmounted
  /\ \E token \in StoredTokens, gated \in BOOLEAN :
       auth = [mounted |-> TRUE, gated |-> gated, user |-> "null",
               isLoading |-> token # "none", token |-> token,
               refresh |-> IF token = "none" THEN NoRefresh
                           ELSE [token |-> token, stale |-> FALSE],
               logins |-> {},
               last |-> AuthEvent("initializeAuth", "started", FALSE, FALSE)]

\* initializeAuth after refreshToken resolved
RefreshTokenResolve ==
  /\ auth.mounted
  /\ auth.refresh # NoRefresh
  /\ RefreshSucceeds(auth.refresh.token)
  /\ auth' = [auth EXCEPT
                !.user = AdminUser,
                !.token = "refreshed",
                !.isLoading = FALSE,
                !.refresh = NoRefresh,
                !.last = AuthEvent("initializeAuth", "resolved",
                                   auth.refresh.stale, FALSE)]
  /\ AuthStill

\* initializeAuth after refreshToken rejected: the catch block removes the
\* auth_token
RefreshTokenReject ==
  /\ auth.mounted
  /\ auth.refresh # NoRefresh
  /\ ~RefreshSucceeds(auth.refresh.token)
  /\ auth' = [auth EXCEPT
                !.token = "none",
                !.isLoading = FALSE,
                !.refresh = NoRefresh,
                !.last = AuthEvent("initializeAuth", "rejected",
                                   auth.refresh.stale, FALSE)]
  /\ AuthStill

\* the slot a new login call takes
FreeLogin == CHOOSE k \in 1..MaxLogins : \A c \in auth.logins : c.lid # k

\* login(credentials) up to its await
Login ==
  \E credentials \in Credentials :
    /\ auth.mounted
    /\ Cardinality(auth.logins) < MaxLogins
    /\ auth.gated => (~auth.isLoading /\ auth.user = "null")
    /\ auth' = [auth EXCEPT
                  !.isLoading = TRUE,
                  !.logins = @ \cup {[lid |-> FreeLogin,
                                      credentials |-> credentials,
                                      stale |-> FALSE]},
                  !.last = AuthEvent("login", "started", FALSE, FALSE)]
    /\ AuthStill

LoginResolve ==
  \E c \in auth.logins :
    /\ auth.mounted
    /\ LoginSucceeds(c.credentials)
    /\ auth' = [auth EXCEPT
                  !.user = AdminUser,
                  !.token = "login",
                  !.isLoading = FALSE,
                  !.logins = @ \ {c},
                  !.last = AuthEvent("login", "resolved", c.stale, FALSE)]
    /\ AuthStill

\* the catch block logs and rethrows
LoginReject ==
  \E c \in auth.logins :
    /\ auth.mounted
    /\ ~LoginSucceeds(c.credentials)
    /\ auth' = [auth EXCEPT
                  !.isLoading = FALSE,
                  !.logins = @ \ {c},
                  !.last = AuthEvent("login", "rejected", c.stale, TRUE)]
    /\ AuthStill

\* logout(): what is in flight was started before it
Logout ==
  /\ auth.mounted
  /\ auth.gated => auth.user # "null"
  /\ auth' = [auth EXCEPT
                !.user = "null",
                !.token = "none",
                !.refresh = IF @ = NoRefresh THEN @
                            ELSE [@ EXCEPT !.stale = TRUE],
                !.logins = {[c EXCEPT !.stale = TRUE] : c \in @},
                !.last = AuthEvent("logout", "done", FALSE, FALSE)]
  /\ AuthStill

AuthNext ==
  \/ RefreshTokenResolve
  \/ RefreshTokenReject
  \/ Login
  \/ LoginResolve
  \/ LoginReject
  \/ Logout

AuthSpec == AuthInit /\ [][AuthNext]_vars

(***************************************************************************)
(* Properties                                                              *)
(***************************************************************************)
Settled(op, event) == ~crashed /\ last.op = op /\ last.event = event

\* C1: when deleteUser(id) is called for an id in the store and the backing
\* delete fails, with no other call in between, allUsers after the call
\* equals allUsers before the call: the same records in the same order.
C1_DeleteRollbackExact ==
  Settled("deleteUser", "rejected") => allUsers = last.before

\* C2: deleteUsers(ids) is all-or-nothing on the store: when the backing
\* delete of one targeted id fails, every targeted record that was in the
\* store before the call is in the store after it; when all backing deletes
\* succeed, no targeted id remains in the store.
C2_BulkDeleteAllOrNothing ==
  /\ Settled("deleteUsers", "rejected") =>
       \A i \in 1..Len(last.before) :
         last.before[i].id \in last.ids => last.before[i] \in Range(allUsers)
  /\ Settled("deleteUsers", "resolved") => Ids(allUsers) \cap last.ids = {}

\* a bulk delete of two stored records was rejected after one of the two
\* DELETEs had already succeeded
C2_Witness ==
  /\ Settled("deleteUsers", "rejected")
  /\ Cardinality(last.ids \cap Ids(last.before)) >= 2
  /\ last.left # last.ids
  /\ last.ids \subseteq Ids(allUsers)

\* C3: when updateUser(id, data) is called for an id in the store and the
\* backing update fails, with no other call in between, allUsers after the
\* call equals allUsers before the call, updatedAt of the target included.
C3_UpdateRollbackExact ==
  Settled("updateUser", "rejected") => allUsers = last.before

\* an update was rejected whose optimistic record differed from the stored
\* one in its name and in its updatedAt
C3_Witness ==
  /\ Settled("updateUser", "rejected")
  /\ last.id \in Ids(last.before)
  /\ FindId(last.before, last.id).updatedAt < now
  /\ \A userData \in FormInputs :
       FindId(last.before, last.id).name # userData.name

\* C4: when createUser(data) succeeds the store has exactly one more record
\* than before the call, that record carries the id the backing source
\* returned, and no other id has appeared in the store; when the backing
\* create fails the store equals its content before the call.
C4_CreateAddsOne ==
  /\ Settled("createUser", "resolved") =>
       /\ Len(allUsers) = Len(last.before) + 1
       /\ \E i \in 1..Len(allUsers) :
            /\ allUsers[i].id = last.id
            /\ SubSeq(allUsers, 1, i - 1)
                 \o SubSeq(allUsers, i + 1, Len(allUsers)) = last.before
  /\ Settled("createUser", "rejected") => allUsers = last.before

\* a create succeeded on a store that already held records
C4_Witness ==
  /\ Settled("createUser", "resolved")
  /\ Len(last.before) >= 1
  /\ last.id \notin Ids(last.before)
  /\ last.id \in Ids(allUsers)

\* the effect of a pending mutation, as it shows in the store
Applied(c) ==
  CASE c.op = "createUser" -> Len(allUsers) = Len(c.before) + 1
    [] c.op = "updateUser" ->
         /\ c.id \in Ids(allUsers)
         /\ FindId(allUsers, c.id).name = c.data.name
         /\ FindId(allUsers, c.id).role = c.data.role
    [] c.op = "deleteUser" -> c.id \notin Ids(allUsers)
    [] c.op = "deleteUsers" -> c.ids \cap Ids(allUsers) = {}
    [] OTHER -> TRUE

\* C5: for each of createUser, updateUser, deleteUser and deleteUsers, the
\* effect of the mutation is applied to allUsers in every state in which
\* its backing call has been started and has not yet settled.
C5_OptimisticWhilePending ==
  ~crashed => \A c \in pending : Applied(c)

\* C6: updateUser, deleteUser and deleteUsers start no backing call when a
\* targeted id is absent from the store at call time.
C6_NoCallForAbsentTarget ==
  /\ (Settled("updateUser", "started") \/ Settled("deleteUser", "started")) =>
       last.id \in Ids(last.before)
  /\ Settled("deleteUsers", "started") => last.ids \subseteq Ids(last.before)

\* C7: no two records of allUsers have the same id, in every reachable
\* state, calls that overlap and calls that fail included.
C7_UniqueIds ==
  \A i, j \in 1..Len(allUsers) : i # j => allUsers[i].id # allUsers[j].id

\* C8: setFilters, resetFilters, searchUsers and setLimit each leave
\* currentPage equal to 1, whatever the page was before the call.
C8_PageResetToOne ==
  last.op \in {"setFilters", "resetFilters", "searchUsers", "setLimit"} =>
    currentPage = 1

\* setLimit was called while a later page was shown
C8_Witness == last.op = "setLimit" /\ last.page > 1 /\ currentPage = 1

\* C9: currentPage never exceeds max(1, totalPages).
C9_PageInRange == ~crashed => currentPage <= Max(1, totalPages)

\* C10: every page has at most limit elements, the pages 1..totalPages
\* concatenated are the array, and an empty array has 0 pages.
C10_PagesPartitionArray ==
  pure.fn = "paginateArray" =>
    /\ \A p \in 1..Len(pure.pages) : Len(pure.pages[p]) <= pure.limit
    /\ Len(pure.pages) = pure.total => Concat(pure.pages) = pure.array
    /\ Len(pure.array) = 0 => pure.total = 0

\* an array was cut into several pages, the last of them not full
C10_Witness ==
  /\ pure.fn = "paginateArray"
  /\ Len(pure.pages) = pure.total
  /\ pure.total >= 2
  /\ Len(pure.pages[pure.total]) < pure.limit

\* C11: paginateArray returns the empty array for every page below 1 and
\* for every page above the last page.
C11_OutOfRangePageEmpty ==
  (pure.fn = "page" /\ pure.called
     /\ (pure.page < 1 \/ pure.page > pure.total)) => pure.result = <<>>

Filtered == pure.fn = "filterUsers" /\ pure.called /\ ~pure.once.threw

\* C12: every element of filterUsers(R, C) is an element of R, and
\* filterUsers applied to its own result with the same criteria returns the
\* same records in the same order, also when records have equal sort keys.
C12_FilterSubsetIdempotent ==
  Filtered =>
    /\ Range(pure.once.value) \subseteq Range(pure.users)
    /\ ~pure.twice.threw
    /\ pure.twice.value = pure.once.value

\* C13: setPage, setLimit, setFilters, resetFilters and searchUsers leave
\* allUsers unchanged and start no backing call; allUsers changes only in
\* steps of fetchUsers, createUser, updateUser, deleteUser and deleteUsers.
C13_SettersKeepStore ==
  [][/\ (SearchUsers \/ SetPage \/ SetLimit \/ SetFilters \/ ResetFilters)
          => UNCHANGED <<allUsers, pending>>
     /\ allUsers' # allUsers
          => last'.op \in {"fetchUsers", "createUser", "updateUser",
                           "deleteUser", "deleteUsers"}]_vars

\* resetFilters was called on a store that held records while a backing
\* call was in flight
C13_Witness ==
  /\ last.op = "resetFilters"
  /\ Len(allUsers) >= 1
  /\ pending # {}

Mutations == {"createUser", "updateUser", "deleteUser", "deleteUsers"}

\* C14: in every state in which the backing call of a createUser,
\* updateUser, deleteUser or deleteUsers invocation is pending, loading is
\* true, also when two invocations overlap and one completes first.
C14_LoadingWhilePending ==
  (~crashed /\ \E c \in pending : c.op \in Mutations) => loading

\* C15: after a createUser, updateUser, deleteUser or deleteUsers invocation
\* that fails (target not found or backing call rejected), error is not
\* null.
C15_ErrorAfterFailure ==
  (/\ ~crashed
   /\ last.op \in Mutations
   /\ last.event \in {"rejected", "notfound"}) => error # "null"

MinSet == Has(pure.filters, "salaryMin") /\ pure.filters.salaryMin.kind = "num"
MaxSet == Has(pure.filters, "salaryMax") /\ pure.filters.salaryMax.kind = "num"

\* C16: when salaryMin or salaryMax is set (0 included) filterUsers returns
\* no record with hasSalary false, and every returned record has its salary
\* within the bounds that are set; [{id 1, hasSalary false}, {id 2, salary
\* 120000, hasSalary true}] with hasSalary 'yes' and salaryMin 100000
\* returns exactly the record with id 2.
C16_SalaryBounds ==
  Filtered =>
    /\ \A i \in 1..Len(pure.once.value) :
         LET user == pure.once.value[i]
         IN /\ (MinSet \/ MaxSet) =>
                 user.hasSalary = "true" /\ user.salary # UndefNum
            /\ MinSet => user.salary >= pure.filters.salaryMin.v
            /\ MaxSet => user.salary <= pure.filters.salaryMax.v
    /\ (/\ pure.filters = [hasSalary |-> "yes",
                           salaryMin |-> NumBound(100000)]
        /\ Len(pure.users) = 2
        /\ Ids(pure.users) = {1, 2})
         => Len(pure.once.value) = 1 /\ pure.once.value[1].id = 2

\* salaryMin 0 was applied to a collection holding a record with hasSalary
\* false and a stored salary above the bound, and a record was returned
C16_Witness ==
  /\ Filtered
  /\ MinSet /\ pure.filters.salaryMin.v = 0
  /\ \E i \in 1..Len(pure.users) :
       /\ pure.users[i].hasSalary = "false"
       /\ pure.users[i].salary > 0
  /\ Len(pure.once.value) >= 1

\* text t contains query q, letter case ignored; an undefined text
\* contains nothing
Contains(t, q) == t # UndefText /\ includes(toLowerCase(t), toLowerCase(q))

Blank(f, k) == ~Has(f, k) \/ trim(f[k]) = <<>>

\* the record passes every active predicate of the criteria
Satisfies(user, f) ==
  /\ (Has(f, "search") /\ f.search # <<>>) =>
       \/ \E t \in {user.name, user.email, user.username, user.jobTitle,
                     user.company.name, user.address.city} :
            Contains(t, f.search)
       \/ includes(user.phone, toLowerCase(f.search))
  /\ (Has(f, "role") /\ f.role \notin {<<>>, All}) => user.role = f.role
  /\ (Has(f, "status") /\ f.status \notin {<<>>, All}) =>
       user.status = f.status
  /\ (Has(f, "hasSalary") /\ f.hasSalary = "yes") => user.hasSalary = "true"
  /\ (Has(f, "hasSalary") /\ f.hasSalary = "no") => user.hasSalary # "true"
  /\ (Has(f, "salaryMin") /\ f.salaryMin.kind # "empty") =>
       /\ user.hasSalary = "true" /\ user.salary # UndefNum
       /\ f.salaryMin.kind = "num" /\ user.salary >= f.salaryMin.v
  /\ (Has(f, "salaryMax") /\ f.salaryMax.kind # "empty") =>
       /\ user.hasSalary = "true" /\ user.salary # UndefNum
       /\ f.salaryMax.kind = "num" /\ user.salary <= f.salaryMax.v
  /\ ~Blank(f, "company") => Contains(user.company.name, f.company)
  /\ ~Blank(f, "jobTitle") => Contains(user.jobTitle, f.jobTitle)
  /\ ~Blank(f, "city") => Contains(user.address.city, f.city)
  /\ (Has(f, "createdAfter") /\ f.createdAfter.kind # "blank") =>
       /\ user.createdAt # UndefNum
       /\ f.createdAfter.kind = "date" /\ user.createdAt >= f.createdAfter.t
  /\ (Has(f, "createdBefore") /\ f.createdBefore.kind # "blank") =>
       /\ user.createdAt # UndefNum
       /\ f.createdBefore.kind = "date"
       /\ user.createdAt <= f.createdBefore.t

\* C17: filterUsers(R, C) returns, as a set, exactly the records of R that
\* pass every active predicate of C; an empty, undefined or 'all' predicate
\* excludes no record, and an empty R gives the empty array.
C17_ResultIsConjunction ==
  (pure.fn = "filterUsers" /\ pure.called) =>
    /\ ~pure.once.threw
    /\ Range(pure.once.value) =
         {user \in Range(pure.users) : Satisfies(user, pure.filters)}

\* C18: after a successful updateUser(id, data) the record stored under id
\* has the createdAt it had before the call, and its updatedAt is not
\* earlier than its createdAt.
C18_CreatedAtKept ==
  (Settled("updateUser", "resolved") /\ last.id \in Ids(allUsers)) =>
    /\ FindId(allUsers, last.id).createdAt
         = FindId(last.before, last.id).createdAt
    /\ FindId(allUsers, last.id).updatedAt
         >= FindId(allUsers, last.id).createdAt

\* C19: after a successful updateUser(id, data) the record stored under id
\* has the role, status, jobTitle, salary and hasSalary given in data, and
\* the ids in the store are those before the call.
C19_UpdateStoresData ==
  Settled("updateUser", "resolved") =>
    /\ Ids(allUsers) = Ids(last.before)
    /\ \A userData \in FormInputs :
         LET user == FindId(allUsers, last.id)
         IN /\ user.role = userData.role
            /\ user.status = userData.status
            /\ user.jobTitle = userData.jobTitle
            /\ user.salary = userData.salary
            /\ user.hasSalary = userData.hasSalary

\* position of a record in an array of distinct records
Position(s, x) == CHOOSE i \in 1..Len(s) : s[i] = x

\* C20: when filterUsers sorts by a field, two records with equal values at
\* that field appear in the result in the relative order they had in the
\* input, for sortOrder 'asc' and for 'desc'.
C20_SortStable ==
  (Filtered /\ Has(pure.filters, "sortBy") /\ pure.filters.sortBy # "") =>
    \A i, j \in 1..Len(pure.once.value) :
      (/\ i < j
       /\ getNestedValue(pure.once.value[i], pure.filters.sortBy)
            = getNestedValue(pure.once.value[j], pure.filters.sortBy))
        => Position(pure.users, pure.once.value[i])
             < Position(pure.users, pure.once.value[j])

SortsBy(path) ==
  Filtered /\ Has(pure.filters, "sortBy") /\ pure.filters.sortBy = path

\* the arrangements of the records of an array
Arrangements(s) ==
  {p \in Lists(Range(s), Len(s)) : Len(p) = Len(s) /\ Distinct(p)}

DistinctKeys(s, path) ==
  \A i, j \in 1..Len(s) :
    i # j => getNestedValue(s[i], path) # getNestedValue(s[j], path)

\* C21: when filterUsers sorts by salary (ascending or descending), the
\* records with hasSalary false form one contiguous block at one end of the
\* result, whatever number their salary field holds, and the result is the
\* same for every input order of the same records with distinct keys.
C21_SalarySortBlock ==
  SortsBy("salary") =>
    LET result == pure.once.value
        n == Len(result)
        unpaid == {i \in 1..n : result[i].hasSalary = "false"}
    IN /\ \/ unpaid = 1..Cardinality(unpaid)
          \/ unpaid = (n - Cardinality(unpaid) + 1)..n
       /\ DistinctKeys(pure.users, "salary") =>
            \A p \in Arrangements(pure.users) :
              filterUsers(pure.engine, p, pure.filters) = pure.once

\* the value read at a path is undefined
IsUndefined(obj, path) ==
  CASE FieldKind(path) = "text" -> getNestedValue(obj, path) = UndefText
    [] FieldKind(path) = "num" -> getNestedValue(obj, path) = UndefNum
    [] FieldKind(path) = "bool" -> getNestedValue(obj, path) = Undef
    [] FieldKind(path) = "none" -> TRUE
    [] OTHER -> FALSE

NoSortKey ==
  \/ ~Has(pure.filters, "sortBy")
  \/ pure.filters.sortBy = ""
  \/ \A i \in 1..Len(pure.users) :
       IsUndefined(pure.users[i], pure.filters.sortBy)

\* C22: when sortBy is absent, or names a field that no record has,
\* filterUsers returns the filtered records in their original relative
\* order.
C22_NoKeyKeepsOrder ==
  (Filtered /\ NoSortKey) =>
    \A i, j \in 1..Len(pure.once.value) :
      i < j => Position(pure.users, pure.once.value[i])
                 < Position(pure.users, pure.once.value[j])

\* the criteria with every malformed bound taken out
WellFormed(f) ==
  [k \in {k \in DOMAIN f :
            ~ \/ k \in {"salaryMin", "salaryMax"} /\ f[k].kind = "nan"
              \/ k \in {"createdAfter", "createdBefore"}
                   /\ f[k].kind = "invalid"} |-> f[k]]

\* C23: a salaryMin or salaryMax that is not a number and a createdAfter or
\* createdBefore that is not a valid date exclude no record (the result is
\* the one of the criteria without them), and filterUsers never throws.
C23_MalformedIsAbsent ==
  (pure.fn = "filterUsers" /\ pure.called) =>
    /\ ~pure.once.threw
    /\ pure.once = filterUsers(pure.engine, pure.users,
                               WellFormed(pure.filters))

\* C24: in the user form, when hasSalary is true every salary >= 0 (0
\* included) passes validation and every negative salary is rejected; when
\* hasSalary is false the salary never produces a validation error.
C24_SalaryValidation ==
  (form.mounted /\ form.touched # {}) =>
    /\ (form.values.hasSalary /\ form.values.salary >= 0)
         => "salary" \notin DOMAIN form.errors
    /\ (form.values.hasSalary /\ form.values.salary < 0)
         => "salary" \in DOMAIN form.errors
    /\ ~form.values.hasSalary => "salary" \notin DOMAIN form.errors

Submitting == form.mounted /\ form.awaiting # NoSubmission

\* C29: handleSubmit never calls onSubmit when validate returns an error
\* for the current values; when it calls onSubmit, isSubmitting is true from
\* the call until onSubmit settles and false afterwards, also when onSubmit
\* throws, and the thrown error is not propagated to the caller.
C29_SubmitDiscipline ==
  /\ Submitting =>
       /\ validateForm(form.awaiting.values) = NoErrors
       /\ form.isSubmitting
  /\ (form.mounted /\ form.last.op = "settled") =>
       /\ ~form.isSubmitting
       /\ ~form.propagated

\* C30: when a create or update submitted through the user form fails
\* (createUser or updateUser returns null), the form stays open and keeps
\* the entered values; it is closed and reset only after a mutation that
\* succeeded.
C30_FailureKeepsForm ==
  (form.mounted /\ form.last.op = "settled" /\ form.last.outcome = "null") =>
    /\ form.showUserForm
    /\ form.values = form.last.entered

\* the step is the rollback of a failed updateUser right after another
\* updateUser on the same id completed successfully
RollbackAfterConfirm ==
  /\ last.op = "updateUser" /\ last.event = "resolved"
  /\ last'.op = "updateUser" /\ last'.event = "rejected"
  /\ last'.id = last.id
  /\ last'.cid # last.cid
  /\ last.id \in Ids(allUsers)

\* C25: when two updateUser calls on the same id overlap and one fails after
\* the other has completed successfully, the rollback of the failed one does
\* not overwrite the record written by the successful one: a record
\* confirmed by the backing source is never replaced by an older snapshot.
C25_RollbackKeepsConfirmed ==
  [][RollbackAfterConfirm =>
       FindId(allUsers', last.id) = FindId(allUsers, last.id)]_vars

\* C26: after a deleteUsers(ids) call has completed, successfully or not,
\* no targeted record is in the store while its backing delete succeeded,
\* and none is absent from the store while its backing delete failed.
C26_BulkDeleteAgrees ==
  (/\ ~crashed
   /\ last.op = "deleteUsers"
   /\ last.event \in {"resolved", "rejected"}) =>
    \A id \in last.ids :
      /\ id \in Ids(allUsers) => id \in last.left
      /\ (id \in Ids(last.before) /\ id \notin Ids(allUsers))
           => id \notin last.left

C28_LogoutIsFinal ==
  [][/\ (auth'.last.event = "resolved" /\ auth'.last.stale)
          => (auth'.user = auth.user /\ auth'.token = auth.token)
     /\ (auth'.last.op = "login" /\ auth'.last.event = "rejected")
          => /\ auth'.user = auth.user
             /\ auth'.token = auth.token
             /\ auth'.last.rethrown]_auth

====
